---- MODULE Spec2Model ----
(***************************************************************************)
(* The AudioPlayer component of src/components/AudioPlayer.tsx as a state  *)
(* machine: the React state cells, the closures that outlive the render    *)
(* they were created in (the status callback handed to createAsync, the    *)
(* sound captured by loadAudio and by the effect cleanups), the platform   *)
(* resources the component talks to, and the requests in flight.           *)
(*                                                                         *)
(* Volumes are in tenths (10 is 1.0).  Time is in milliseconds and         *)
(* advances by Tick.  A handle is named by the number of the loadAudio     *)
(* call that created it.                                                   *)
(***************************************************************************)
EXTENDS Integers, Sequences, FiniteSets, TLC

\* ---- bounds of the model: loadAudio calls, changes of the uri prop, locators,
\* positions, minutes formatted, requests in flight (play, pause and seek
\* requests together; volume requests of each kind), and the step of the clock in ms
MaxLoads == 2
MaxChanges == 1
MaxUri == 2
MaxPos == 1
MaxMinutes == 10
MaxPending == 1
Tick == 50

\* ---- constants of the program
ThrottleWait == 100
DefaultVolume == 10
InitialStatusVolume == 10
NoSound == 0
EmptyUri == 0

Undefined == 0 - 1
NoTimer == 0 - 1
NoListener == 0 - 1

Handles == 1..MaxLoads
\* the values of the uri prop: the empty string and MaxUri locators
Uris == {EmptyUri} \cup 1..MaxUri
Positions == 0..MaxPos
Levels == {4, DefaultVolume}

Min(a, b) == IF a < b THEN a ELSE b
Max(a, b) == IF a > b THEN a ELSE b

VARIABLES
  phase,          \* "init", "mounted", "removed" (cleanups not yet run), "unmounted"
  uri,            \* the uri prop
  sound, isPlaying, duration, position, volume, isSeeking,   \* useState cells
  initPc,         \* position of initAudio
  nChanges,       \* number of changes of the uri prop so far
  nLoads,         \* number of loadAudio calls so far
  loads,          \* loads[n]: position and captured values of the n-th loadAudio
  hState,         \* hState[h]: "none", "loaded", "unloaded"
  hVol,           \* hVol[h]: playback volume of resource h
  cleanupSound,   \* sound captured by the cleanup of the [uri] effect
  listener,       \* sound captured by the listener the last run of the [sound] effect registered
  subs,           \* sounds captured by the listeners registered with VolumeController
  sysVolume,      \* system output level
  pendingPlay,    \* playAsync and pauseAsync requests awaited by handlePlayPause
  pendingSeek,    \* setPositionAsync requests awaited by handleSlidingComplete
  pendingVol,     \* setVolumeAsync requests awaited by handleVolumeChange
  listenerReqs,   \* setVolumeAsync requests issued by the volume listener
  pendingUnload,  \* unloadAsync requests issued by the [uri] effect cleanup
  th,             \* th[h]: state of the throttle wrapped around handle h's callback
  log,            \* platform calls issued by the last step, in order
  volFailed,      \* some volume update call has failed
  fmtIn, fmtOut   \* argument and result of formatTime

vars == <<phase, uri, sound, isPlaying, duration, position, volume, isSeeking,
          initPc, nChanges, nLoads, loads, hState, hVol, cleanupSound, listener, subs,
          sysVolume, pendingPlay, pendingSeek, pendingVol, listenerReqs, pendingUnload, th,
          log, volFailed,
          fmtIn, fmtOut>>

uiVars == <<isPlaying, duration, position, isSeeking>>
fmtVars == <<fmtIn, fmtOut>>

Mounted == phase = "mounted"

Call(op, h, v) == [op |-> op, h |-> h, v |-> v]

\* console.error(...) of a catch block
LogError == Call("console.error", 0, 0)

\* ---- playback status
UnloadedStatus ==
  [isLoaded |-> FALSE, durationMillis |-> Undefined,
   positionMillis |-> Undefined, isPlaying |-> FALSE]

\* the loaded statuses the platform reports: playing, with a duration and a
\* position, or paused, with both missing
LoadedStatuses ==
  {[isLoaded |-> TRUE, durationMillis |-> dp[1], positionMillis |-> dp[2],
    isPlaying |-> dp[1] = MaxPos] :
     dp \in {<<Undefined, Undefined>>} \cup {<<MaxPos, p>> : p \in 1..MaxPos}}

\* x || 0
OrZero(x) == IF x = Undefined \/ x = 0 THEN 0 ELSE x

\* ---- throttle(func, 100) (65, 72): lodash's debounce with leading and trailing
\* edge and maxWait = wait.  sinceCall and sinceInvoke are now - lastCallTime and
\* now - lastInvokeTime, capped at the wait; timer is the time left on timerId.
FreshThrottle ==
  [timer |-> NoTimer, has |-> FALSE, args |-> UnloadedStatus,
   sinceCall |-> ThrottleWait, sinceInvoke |-> ThrottleWait]

shouldInvoke(t) == t.sinceCall >= ThrottleWait \/ t.sinceInvoke >= ThrottleWait

\* the throttled function is called with st
ThrottleCall(t, st) ==
  IF shouldInvoke(t)
  THEN [th |-> [timer |-> ThrottleWait, has |-> FALSE, args |-> UnloadedStatus,
                sinceCall |-> 0, sinceInvoke |-> 0],
        inv |-> TRUE, st |-> st]
  ELSE [th |-> [t EXCEPT !.has = TRUE, !.args = st, !.sinceCall = 0,
                         !.timer = IF t.timer = NoTimer THEN ThrottleWait ELSE @],
        inv |-> FALSE, st |-> st]

\* the throttle's timer expires
ThrottleTimer(t) ==
  IF shouldInvoke(t)
  THEN IF t.has
       THEN [th |-> [t EXCEPT !.timer = NoTimer, !.has = FALSE,
                              !.args = UnloadedStatus, !.sinceInvoke = 0],
             inv |-> TRUE, st |-> t.args]
       ELSE [th |-> [t EXCEPT !.timer = NoTimer], inv |-> FALSE, st |-> t.args]
  ELSE [th |-> [t EXCEPT !.timer = Min(ThrottleWait - t.sinceCall,
                                       ThrottleWait - t.sinceInvoke)],
        inv |-> FALSE, st |-> t.args]

ThrottleTick(t) ==
  [t EXCEPT !.timer = IF @ = NoTimer THEN NoTimer ELSE Max(0, @ - Tick),
            !.sinceCall = Min(ThrottleWait, @ + Tick),
            !.sinceInvoke = Min(ThrottleWait, @ + Tick)]

\* ---- onPlaybackStatusUpdate: the function inside the throttle of handle h.
\* isSeeking is the value of the render that created the closure.
\* the condition of line 66 without its isLoaded test
StatusAppliesUnloaded(h, r) ==
  r.inv /\ ~loads[h].cbSeeking /\ Mounted

StatusApplies(h, r) ==
  r.inv /\ r.st.isLoaded /\ ~loads[h].cbSeeking /\ Mounted

onPlaybackStatusUpdate(h, r) ==
  IF StatusApplies(h, r)
  THEN /\ duration' = OrZero(r.st.durationMillis)
       /\ position' = OrZero(r.st.positionMillis)
       /\ isPlaying' = r.st.isPlaying
  ELSE UNCHANGED <<duration, position, isPlaying>>

\* ---- formatTime
Digit(d) == CASE d = 0 -> "0" [] d = 1 -> "1" [] d = 2 -> "2" [] d = 3 -> "3"
              [] d = 4 -> "4" [] d = 5 -> "5" [] d = 6 -> "6" [] d = 7 -> "7"
              [] d = 8 -> "8" [] d = 9 -> "9"

RECURSIVE toString(_)
toString(n) == IF n < 10 THEN <<Digit(n)>>
               ELSE Append(toString(n \div 10), Digit(n % 10))

RECURSIVE padStart(_, _, _)
padStart(s, len, fill) == IF Len(s) >= len THEN s
                          ELSE padStart(<<fill>> \o s, len, fill)

\* formatTime with the seconds left unpadded
formatTimeUnpadded(milliseconds) ==
  LET totalSeconds == milliseconds \div 1000
      minutes == totalSeconds \div 60
      seconds == totalSeconds % 60
  IN toString(minutes) \o <<":">> \o toString(seconds)

formatTime(milliseconds) ==
  LET totalSeconds == milliseconds \div 1000
      minutes == totalSeconds \div 60
      seconds == totalSeconds % 60
  IN toString(minutes) \o <<":">> \o padStart(toString(seconds), 2, "0")

\* ---- initial state: the useState initial values, nothing mounted yet
Init ==
  /\ phase = "init"
  /\ uri = EmptyUri
  /\ sound = NoSound
  /\ isPlaying = FALSE
  /\ duration = 0
  /\ position = 0
  /\ volume = DefaultVolume
  /\ isSeeking = FALSE
  /\ initPc = "idle"
  /\ nChanges = 0
  /\ nLoads = 0
  /\ loads = [n \in Handles |->
               [pc |-> "idle", snd |-> NoSound, cbSeeking |-> FALSE, uri |-> EmptyUri]]
  /\ hState = [h \in Handles |-> "none"]
  /\ hVol = [h \in Handles |-> InitialStatusVolume]
  /\ cleanupSound = NoSound
  /\ listener = NoListener
  /\ subs = {}
  /\ sysVolume \in Levels
  /\ pendingPlay = {}
  /\ pendingSeek = {}
  /\ pendingVol = {}
  /\ listenerReqs = {}
  /\ pendingUnload = [h \in Handles |-> 0]
  /\ th = [h \in Handles |-> FreshThrottle]
  /\ log = <<>>
  /\ volFailed = FALSE
  /\ fmtIn = 0
  /\ fmtOut = <<>>

\* ---- loadAudio, first part (lines 42-55): called from the [uri] effect of the
\* current render, so sound, uri, isSeeking are this render's values.
LoadStart(u) ==
  [pc |-> IF sound # NoSound THEN "unloading" ELSE "creating",
   snd |-> sound, cbSeeking |-> isSeeking, uri |-> u]

LoadStartLog(n, u) ==
  IF sound # NoSound THEN <<Call("unload", sound, 0)>> ELSE <<Call("create", n, u)>>

\* ---- mount: the effects run in the order they are declared:
\* the volume listener (124), initAudio (150), the [uri] effect (155)
Mount(u) ==
  /\ phase = "init"
  /\ phase' = "mounted"
  /\ uri' = u
  /\ listener' = sound
  /\ subs' = subs \cup {sound}
  /\ initPc' = "perm"
  /\ cleanupSound' = sound
  /\ IF u # EmptyUri
     THEN /\ nLoads' = nLoads + 1
          /\ loads' = [loads EXCEPT ![nLoads + 1] = LoadStart(u)]
          /\ log' = <<Call("subscribe", sound, 0), Call("requestPermissions", 0, 0)>>
                      \o LoadStartLog(nLoads + 1, u)
     ELSE /\ UNCHANGED <<nLoads, loads>>
          /\ log' = <<Call("subscribe", sound, 0), Call("requestPermissions", 0, 0)>>
  /\ UNCHANGED <<nChanges, sound, uiVars, volume, hState, hVol, sysVolume, pendingPlay, pendingSeek, pendingVol,
                 listenerReqs, pendingUnload, th, volFailed, fmtVars>>

\* ---- the uri prop changes: cleanup of the previous [uri] effect, then the effect
UriChange(u) ==
  /\ Mounted
  /\ u # uri
  /\ u = EmptyUri \/ nLoads < MaxLoads
  /\ nChanges < MaxChanges
  /\ nChanges' = nChanges + 1
  /\ uri' = u
  /\ cleanupSound' = sound
  /\ pendingUnload' = IF cleanupSound # NoSound
                      THEN [pendingUnload EXCEPT ![cleanupSound] = @ + 1]
                      ELSE pendingUnload
  /\ IF u # EmptyUri
     THEN /\ nLoads' = nLoads + 1
          /\ loads' = [loads EXCEPT ![nLoads + 1] = LoadStart(u)]
          /\ log' = (IF cleanupSound # NoSound
                     THEN <<Call("unload", cleanupSound, 0)>> ELSE <<>>)
                      \o LoadStartLog(nLoads + 1, u)
     ELSE /\ UNCHANGED <<nLoads, loads>>
          /\ log' = IF cleanupSound # NoSound
                    THEN <<Call("unload", cleanupSound, 0)>> ELSE <<>>
  /\ UNCHANGED <<phase, sound, uiVars, volume, initPc, hState, hVol, listener, subs, sysVolume,
                 pendingPlay, pendingSeek, pendingVol, listenerReqs, th, volFailed,
                 fmtVars>>

\* ---- unmount: the component is removed; the cleanups of its effects run in a
\* later task, the listener stays registered until then
Unmount ==
  /\ Mounted
  /\ phase' = "removed"
  /\ log' = <<>>
  /\ UNCHANGED <<nChanges, uri, sound, uiVars, volume, initPc, nLoads, loads, hState, hVol,
                 cleanupSound, listener, subs, sysVolume, pendingPlay, pendingSeek, pendingVol,
                 listenerReqs, pendingUnload, th, volFailed, fmtVars>>

\* ---- the cleanups of the removed component run in the order the effects are
\* declared: volumeListener.remove() (133), then sound?.unloadAsync() (160) with
\* the sound of the render in which the [uri] effect last ran
UnmountCleanup ==
  /\ phase = "removed"
  /\ phase' = "unmounted"
  /\ listener' = NoListener
  /\ subs' = subs \ {listener}
  /\ pendingUnload' = IF cleanupSound # NoSound
                      THEN [pendingUnload EXCEPT ![cleanupSound] = @ + 1]
                      ELSE pendingUnload
  /\ log' = <<Call("remove", listener, 0)>>
              \o (IF cleanupSound # NoSound
                  THEN <<Call("unload", cleanupSound, 0)>> ELSE <<>>)
  /\ UNCHANGED <<nChanges, uri, sound, uiVars, volume, initPc, nLoads, loads, hState, hVol,
                 cleanupSound, sysVolume, pendingPlay, pendingSeek, pendingVol, listenerReqs, th, volFailed, fmtVars>>

\* ---- unloadAsync of handle h completes: the resource is released and h's
\* status callback is called with the unloaded status
Unloaded(h) ==
  /\ hState' = [hState EXCEPT ![h] = "unloaded"]
  /\ LET r == ThrottleCall(th[h], UnloadedStatus)
     IN /\ th' = [th EXCEPT ![h] = r.th]
        /\ onPlaybackStatusUpdate(h, r)

\* ---- loadAudio, await sound.unloadAsync() (46) resolves: createAsync is called
LoadUnloadOk(n) ==
  /\ loads[n].pc = "unloading"
  /\ Unloaded(loads[n].snd)
  /\ loads' = [loads EXCEPT ![n].pc = "creating"]
  /\ log' = <<Call("create", n, loads[n].uri)>>
  /\ UNCHANGED <<phase, nChanges, uri, sound, isSeeking, volume, initPc, nLoads, hVol, cleanupSound,
                 listener, subs, sysVolume, pendingPlay, pendingSeek, pendingVol, listenerReqs,
                 pendingUnload, volFailed, fmtVars>>

\* ---- loadAudio, await sound.unloadAsync() rejects: catch (59)
LoadUnloadFail(n) ==
  /\ loads[n].pc = "unloading"
  /\ hState[loads[n].snd] = "loaded"
  /\ loads' = [loads EXCEPT ![n].pc = "failed"]
  /\ log' = <<LogError>>
  /\ UNCHANGED <<phase, nChanges, uri, sound, uiVars, volume, initPc, nLoads, hState, hVol,
                 cleanupSound, listener, subs, sysVolume, pendingPlay, pendingSeek, pendingVol,
                 listenerReqs, pendingUnload, th, volFailed, fmtVars>>

\* ---- setSound(audioSound) (58): the component renders with the new sound; the
\* [sound] effect of that render runs in a later task.  Dropped after removal.
setSound(h) ==
  IF Mounted
  THEN sound' = h
  ELSE UNCHANGED sound

\* ---- loadAudio, await createAsync (50) resolves
LoadCreateOk(n) ==
  /\ loads[n].pc = "creating"
  /\ loads' = [loads EXCEPT ![n].pc = "done"]
  /\ hState' = [hState EXCEPT ![n] = "loaded"]
  /\ hVol' = [hVol EXCEPT ![n] = InitialStatusVolume]
  /\ setSound(n)
  /\ log' = <<>>
  /\ UNCHANGED <<phase, nChanges, uri, uiVars, volume, initPc, nLoads, cleanupSound, listener, subs, sysVolume,
                 pendingPlay, pendingSeek, pendingVol, listenerReqs, pendingUnload, th, volFailed, fmtVars>>

\* the [sound] effect registering the new listener with no cleanup of the old
SoundEffectKeepsListener ==
  /\ Mounted
  /\ listener # sound
  /\ listener' = sound
  /\ subs' = subs \cup {sound}
  /\ log' = <<Call("subscribe", sound, 0)>>
  /\ UNCHANGED <<phase, nChanges, uri, sound, uiVars, volume, initPc, nLoads, loads, hState, hVol,
                 cleanupSound, sysVolume, pendingPlay, pendingSeek, pendingVol, listenerReqs,
                 pendingUnload, th, volFailed, fmtVars>>

\* ---- the [sound] effect (124-135) of a render whose sound is not the one the
\* registered listener captured: the cleanup of the previous run removes that
\* listener (133), then a listener capturing the new sound is registered (125)
SoundEffect ==
  /\ Mounted
  /\ listener # sound
  /\ listener' = sound
  /\ subs' = (subs \ {listener}) \cup {sound}
  /\ log' = <<Call("remove", listener, 0), Call("subscribe", sound, 0)>>
  /\ UNCHANGED <<phase, nChanges, uri, sound, uiVars, volume, initPc, nLoads, loads, hState, hVol,
                 cleanupSound, sysVolume, pendingPlay, pendingSeek, pendingVol, listenerReqs,
                 pendingUnload, th, volFailed, fmtVars>>

\* ---- loadAudio, await createAsync rejects: catch (59), sound is left as it was
LoadCreateFail(n) ==
  /\ loads[n].pc = "creating"
  /\ loads' = [loads EXCEPT ![n].pc = "failed"]
  /\ log' = <<LogError>>
  /\ UNCHANGED <<phase, nChanges, uri, sound, uiVars, volume, initPc, nLoads, hState, hVol,
                 cleanupSound, listener, subs, sysVolume, pendingPlay, pendingSeek, pendingVol,
                 listenerReqs, pendingUnload, th, volFailed, fmtVars>>

\* ---- the unloadAsync issued by the effect cleanup (160) completes
CleanupUnloadOk(h) ==
  /\ pendingUnload[h] > 0
  /\ pendingUnload' = [pendingUnload EXCEPT ![h] = @ - 1]
  /\ Unloaded(h)
  /\ log' = <<>>
  /\ UNCHANGED <<phase, nChanges, uri, sound, isSeeking, volume, initPc, nLoads, loads, hVol,
                 cleanupSound, listener, subs, sysVolume, pendingPlay, pendingSeek, pendingVol,
                 listenerReqs, volFailed, fmtVars>>

CleanupUnloadFail(h) ==
  /\ pendingUnload[h] > 0
  /\ hState[h] = "loaded"
  /\ pendingUnload' = [pendingUnload EXCEPT ![h] = @ - 1]
  /\ log' = <<>>
  /\ UNCHANGED <<phase, nChanges, uri, sound, uiVars, volume, initPc, nLoads, loads, hState, hVol,
                 cleanupSound, listener, subs, sysVolume, pendingPlay, pendingSeek, pendingVol,
                 listenerReqs, th, volFailed, fmtVars>>

\* ---- the platform reports a status of loaded handle h to its callback
DeliverStatus(h, st) ==
  /\ hState[h] = "loaded"
  /\ LET r == ThrottleCall(th[h], st)
     IN /\ th' = [th EXCEPT ![h] = r.th]
        /\ onPlaybackStatusUpdate(h, r)
        /\ log' = <<>>
  /\ UNCHANGED <<phase, nChanges, uri, sound, volume, isSeeking, initPc, nLoads, loads, hState,
                 hVol, cleanupSound, listener, subs, sysVolume, pendingPlay, pendingSeek, pendingVol,
                 listenerReqs, pendingUnload, volFailed, fmtVars>>

\* ---- the timer of handle h's throttle fires (trailing edge)
TimerFire(h) ==
  /\ th[h].timer = 0
  /\ LET r == ThrottleTimer(th[h])
     IN /\ th' = [th EXCEPT ![h] = r.th]
        /\ onPlaybackStatusUpdate(h, r)
        /\ log' = <<>>
  /\ UNCHANGED <<phase, nChanges, uri, sound, volume, isSeeking, initPc, nLoads, loads, hState,
                 hVol, cleanupSound, listener, subs, sysVolume, pendingPlay, pendingSeek, pendingVol,
                 listenerReqs, pendingUnload, volFailed, fmtVars>>

\* ---- time passes, once the tasks that are due have run: the timers that are
\* due, and the effect and cleanup tasks React queued at the last commit
TickTime ==
  /\ phase # "init"
  /\ phase # "removed"
  /\ Mounted => listener = sound
  /\ \A h \in Handles : th[h].timer # 0
  /\ th' = [h \in Handles |-> ThrottleTick(th[h])]
  /\ log' = <<>>
  /\ UNCHANGED <<phase, nChanges, uri, sound, uiVars, volume, initPc, nLoads, loads, hState, hVol,
                 cleanupSound, listener, subs, sysVolume, pendingPlay, pendingSeek, pendingVol,
                 listenerReqs, pendingUnload, volFailed, fmtVars>>

\* handlePlayPause flipping isPlaying itself once the request is issued
handlePlayPauseOptimistic ==
  /\ Mounted
  /\ sound # NoSound => Cardinality(pendingPlay) + Cardinality(pendingSeek) < MaxPending
  /\ IF sound = NoSound
     THEN /\ log' = <<>>
          /\ UNCHANGED <<pendingPlay, isPlaying>>
     ELSE /\ log' = <<Call(IF isPlaying THEN "pause" ELSE "play", sound, 0)>>
          /\ pendingPlay' = pendingPlay \cup {[h |-> sound]}
          /\ isPlaying' = ~isPlaying
  /\ UNCHANGED <<phase, nChanges, uri, sound, duration, position, isSeeking, volume, initPc,
                 nLoads, loads, hState, hVol, cleanupSound, listener, subs, sysVolume,
                 pendingSeek, pendingVol, listenerReqs, pendingUnload, th, volFailed,
                 fmtVars>>

\* ---- handlePlayPause (75-85), up to the await: the closure of the current render
handlePlayPause ==
  /\ Mounted
  /\ sound # NoSound => Cardinality(pendingPlay) + Cardinality(pendingSeek) < MaxPending
  /\ IF sound = NoSound
     THEN /\ log' = <<>>
          /\ UNCHANGED pendingPlay
     ELSE /\ log' = <<Call(IF isPlaying THEN "pause" ELSE "play", sound, 0)>>
          /\ pendingPlay' = pendingPlay \cup {[h |-> sound]}
  /\ UNCHANGED <<phase, nChanges, uri, sound, uiVars, volume, initPc, nLoads, loads, hState, hVol,
                 cleanupSound, listener, subs, sysVolume, pendingSeek, pendingVol,
                 listenerReqs, pendingUnload, th, volFailed, fmtVars>>

\* ---- handlePlayPause, playAsync or pauseAsync resolved: the handler ends
PlayOk(r) ==
  /\ r \in pendingPlay
  /\ hState[r.h] = "loaded"
  /\ pendingPlay' = pendingPlay \ {r}
  /\ log' = <<>>
  /\ UNCHANGED <<phase, nChanges, uri, sound, uiVars, volume, initPc, nLoads, loads, hState, hVol,
                 cleanupSound, listener, subs, sysVolume, pendingSeek, pendingVol,
                 listenerReqs, pendingUnload, th, volFailed, fmtVars>>

\* ---- handlePlayPause, playAsync or pauseAsync rejected: catch (86-88)
PlayFail(r) ==
  /\ r \in pendingPlay
  /\ pendingPlay' = pendingPlay \ {r}
  /\ log' = <<LogError>>
  /\ UNCHANGED <<phase, nChanges, uri, sound, uiVars, volume, initPc, nLoads, loads, hState, hVol,
                 cleanupSound, listener, subs, sysVolume, pendingSeek, pendingVol,
                 listenerReqs, pendingUnload, th, volFailed, fmtVars>>

\* ---- handleSlidingStart (92-94)
handleSlidingStart ==
  /\ Mounted
  /\ isSeeking' = TRUE
  /\ log' = <<>>
  /\ UNCHANGED <<phase, nChanges, uri, sound, isPlaying, duration, position, volume, initPc,
                 nLoads, loads, hState, hVol, cleanupSound, listener, subs, sysVolume,
                 pendingPlay, pendingSeek, pendingVol, listenerReqs, pendingUnload, th,
                 volFailed, fmtVars>>

\* handleSlidingComplete writing the position before the seek request is issued
handleSlidingCompleteEarlyWrite(value) ==
  /\ Mounted
  /\ sound # NoSound => Cardinality(pendingPlay) + Cardinality(pendingSeek) < MaxPending
  /\ IF sound = NoSound
     THEN /\ log' = <<>>
          /\ UNCHANGED <<pendingPlay, pendingSeek, position>>
     ELSE /\ position' = value
          /\ log' = <<Call("setPosition", sound, value)>>
          /\ pendingSeek' = pendingSeek \cup {[h |-> sound, v |-> value]}
  /\ UNCHANGED <<phase, nChanges, uri, sound, pendingPlay, isPlaying, duration, isSeeking, volume, initPc,
                 nLoads, loads, hState, hVol, cleanupSound, listener, subs, sysVolume,
                 pendingVol, listenerReqs, pendingUnload, th, volFailed, fmtVars>>

\* ---- handleSlidingComplete (97-100), up to the await
handleSlidingComplete(value) ==
  /\ Mounted
  /\ sound # NoSound => Cardinality(pendingPlay) + Cardinality(pendingSeek) < MaxPending
  /\ IF sound = NoSound
     THEN /\ log' = <<>>
          /\ UNCHANGED pendingSeek
     ELSE /\ log' = <<Call("setPosition", sound, value)>>
          /\ pendingSeek' = pendingSeek \cup {[h |-> sound, v |-> value]}
  /\ UNCHANGED <<phase, nChanges, uri, sound, pendingPlay, uiVars, volume, initPc, nLoads, loads, hState, hVol,
                 cleanupSound, listener, subs, sysVolume, pendingVol, listenerReqs,
                 pendingUnload, th, volFailed, fmtVars>>

\* ---- handleSlidingComplete, setPositionAsync resolved (101-102)
SeekOk(r) ==
  /\ r \in pendingSeek
  /\ hState[r.h] = "loaded"
  /\ pendingSeek' = pendingSeek \ {r}
  /\ IF Mounted
     THEN position' = r.v /\ isSeeking' = FALSE
     ELSE UNCHANGED <<position, isSeeking>>
  /\ log' = <<>>
  /\ UNCHANGED <<phase, nChanges, uri, sound, pendingPlay, isPlaying, duration, volume, initPc, nLoads, loads,
                 hState, hVol, cleanupSound, listener, subs, sysVolume, pendingVol,
                 listenerReqs, pendingUnload, th, volFailed, fmtVars>>

\* the catch of handleSlidingComplete ending the seek interaction
SeekFailClearsSeeking(r) ==
  /\ r \in pendingSeek
  /\ pendingSeek' = pendingSeek \ {r}
  /\ isSeeking' = FALSE
  /\ log' = <<LogError>>
  /\ UNCHANGED <<phase, nChanges, uri, sound, pendingPlay, isPlaying, duration, position, volume, initPc,
                 nLoads, loads, hState, hVol, cleanupSound, listener, subs, sysVolume,
                 pendingVol, listenerReqs, pendingUnload, th, volFailed, fmtVars>>

\* ---- handleSlidingComplete, setPositionAsync rejected: catch (103-105)
SeekFail(r) ==
  /\ r \in pendingSeek
  /\ pendingSeek' = pendingSeek \ {r}
  /\ log' = <<LogError>>
  /\ UNCHANGED <<phase, nChanges, uri, sound, pendingPlay, uiVars, volume, initPc, nLoads, loads, hState, hVol,
                 cleanupSound, listener, subs, sysVolume, pendingVol, listenerReqs,
                 pendingUnload, th, volFailed, fmtVars>>

\* ---- handleVolumeChange (109-121), up to the await.  sysOk: VolumeController.change
\* returned; otherwise it threw and the catch ends the handler.
handleVolumeChange(value, sysOk) ==
  /\ Mounted
  /\ (sysOk /\ sound # NoSound) => Cardinality(pendingVol) < MaxPending
  /\ IF ~sysOk
     THEN /\ log' = <<Call("change", 0, value), LogError>>
          /\ volFailed' = TRUE
          /\ UNCHANGED <<sysVolume, pendingVol, volume>>
     ELSE /\ sysVolume' = value
          /\ UNCHANGED volFailed
          /\ IF sound # NoSound
             THEN /\ log' = <<Call("change", 0, value), Call("setVolume", sound, value)>>
                  /\ pendingVol' = pendingVol \cup {[h |-> sound, v |-> value]}
                  /\ UNCHANGED volume
             ELSE /\ log' = <<Call("change", 0, value)>>
                  /\ volume' = value
                  /\ UNCHANGED pendingVol
  /\ UNCHANGED <<phase, nChanges, uri, sound, uiVars, initPc, nLoads, loads, hState, hVol,
                 cleanupSound, listener, subs, pendingPlay, pendingSeek, listenerReqs, pendingUnload, th, fmtVars>>

\* ---- handleVolumeChange, setVolumeAsync resolved (117)
VolumeOk(r) ==
  /\ r \in pendingVol
  /\ hState[r.h] = "loaded"
  /\ pendingVol' = pendingVol \ {r}
  /\ hVol' = [hVol EXCEPT ![r.h] = r.v]
  /\ volume' = IF Mounted THEN r.v ELSE volume
  /\ log' = <<>>
  /\ UNCHANGED <<phase, nChanges, uri, sound, uiVars, initPc, nLoads, loads, hState, cleanupSound,
                 listener, subs, sysVolume, pendingPlay, pendingSeek, listenerReqs, pendingUnload, th, volFailed, fmtVars>>

\* ---- handleVolumeChange, setVolumeAsync rejected: catch (118-120)
VolumeFail(r) ==
  /\ r \in pendingVol
  /\ pendingVol' = pendingVol \ {r}
  /\ volFailed' = TRUE
  /\ log' = <<LogError>>
  /\ UNCHANGED <<phase, nChanges, uri, sound, uiVars, volume, initPc, nLoads, loads, hState, hVol,
                 cleanupSound, listener, subs, sysVolume, pendingPlay, pendingSeek, listenerReqs,
                 pendingUnload, th, fmtVars>>

\* the setVolumeAsync calls of the listeners capturing the handles in S
ListenerCalls(S, v) ==
  LET q == SelectSeq([i \in 1..MaxLoads |-> i], LAMBDA h : h \in S)
  IN [i \in 1..Len(q) |-> Call("setVolume", q[i], v)]

\* ---- the system output level is changed from outside; every registered volume
\* listener (125-129) runs with the sound it captured
SystemVolumeChanged(v) ==
  /\ phase # "init"
  /\ subs \cap Handles # {} => Cardinality(listenerReqs) < MaxPending
  /\ sysVolume' = v
  /\ volume' = IF subs # {} /\ Mounted THEN v ELSE volume
  /\ listenerReqs' = listenerReqs \cup {[h |-> l, v |-> v] : l \in subs \cap Handles}
  /\ log' = ListenerCalls(subs \cap Handles, v)
  /\ UNCHANGED <<phase, nChanges, uri, sound, uiVars, initPc, nLoads, loads, hState, hVol,
                 cleanupSound, listener, subs, pendingPlay, pendingSeek, pendingVol, pendingUnload,
                 th, volFailed, fmtVars>>

\* ---- the listener's setVolumeAsync resolved
ListenerVolumeOk(r) ==
  /\ r \in listenerReqs
  /\ hState[r.h] = "loaded"
  /\ listenerReqs' = listenerReqs \ {r}
  /\ hVol' = [hVol EXCEPT ![r.h] = r.v]
  /\ log' = <<>>
  /\ UNCHANGED <<phase, nChanges, uri, sound, uiVars, volume, initPc, nLoads, loads, hState,
                 cleanupSound, listener, subs, sysVolume, pendingPlay, pendingSeek, pendingVol,
                 pendingUnload, th, volFailed, fmtVars>>

\* ---- the listener's setVolumeAsync rejected: .catch(console.error) (128)
ListenerVolumeFail(r) ==
  /\ r \in listenerReqs
  /\ listenerReqs' = listenerReqs \ {r}
  /\ volFailed' = TRUE
  /\ log' = <<LogError>>
  /\ UNCHANGED <<phase, nChanges, uri, sound, uiVars, volume, initPc, nLoads, loads, hState, hVol,
                 cleanupSound, listener, subs, sysVolume, pendingPlay, pendingSeek, pendingVol,
                 pendingUnload, th, fmtVars>>

\* initAudio going on to setAudioModeAsync whatever requestPermissionsAsync did
InitPermissionIgnoresFailure(ok) ==
  /\ initPc = "perm"
  /\ initPc' = "mode"
  /\ log' = <<Call("setAudioMode", 0, 0)>>
  /\ UNCHANGED <<phase, nChanges, uri, sound, uiVars, volume, nLoads, loads, hState, hVol,
                 cleanupSound, listener, subs, sysVolume, pendingPlay, pendingSeek, pendingVol,
                 listenerReqs, pendingUnload, th, volFailed, fmtVars>>

\* ---- initAudio (22-39): requestPermissionsAsync settles
InitPermission(ok) ==
  /\ initPc = "perm"
  /\ initPc' = IF ok THEN "mode" ELSE "failed"
  /\ log' = IF ok THEN <<Call("setAudioMode", 0, 0)>> ELSE <<LogError>>
  /\ UNCHANGED <<phase, nChanges, uri, sound, uiVars, volume, nLoads, loads, hState, hVol,
                 cleanupSound, listener, subs, sysVolume, pendingPlay, pendingSeek, pendingVol,
                 listenerReqs, pendingUnload, th, volFailed, fmtVars>>

\* ---- initAudio: setAudioModeAsync settles (27-31); when it resolved, getVolume
\* is called in the same task (33) and either returns (getOk) or throws into
\* the catch (36-38)
InitAudioMode(ok, getOk) ==
  /\ initPc = "mode"
  /\ initPc' = IF ok /\ getOk THEN "getVolume" ELSE "failed"
  /\ log' = IF ~ok THEN <<LogError>>
            ELSE IF getOk THEN <<Call("getVolume", 0, 0)>>
            ELSE <<Call("getVolume", 0, 0), LogError>>
  /\ UNCHANGED <<phase, nChanges, uri, sound, uiVars, volume, nLoads, loads, hState, hVol,
                 cleanupSound, listener, subs, sysVolume, pendingPlay, pendingSeek,
                 pendingVol, listenerReqs, pendingUnload, th, volFailed, fmtVars>>

\* ---- initAudio: the getVolume callback (33-35)
InitGetVolume ==
  /\ initPc = "getVolume"
  /\ initPc' = "done"
  /\ volume' = IF Mounted THEN sysVolume ELSE volume
  /\ log' = <<>>
  /\ UNCHANGED <<phase, nChanges, uri, sound, uiVars, nLoads, loads, hState, hVol, cleanupSound,
                 listener, subs, sysVolume, pendingPlay, pendingSeek, pendingVol, listenerReqs,
                 pendingUnload, th, volFailed, fmtVars>>

\* ---- the next-state relation, by part of the component
Lifecycle ==
  \/ \E u \in Uris : Mount(u)
  \/ \E u \in Uris : UriChange(u)
  \/ Unmount
  \/ UnmountCleanup
  \/ SoundEffect
  \/ \E n \in Handles : LoadUnloadOk(n)
  \/ \E n \in Handles : LoadUnloadFail(n)
  \/ \E n \in Handles : LoadCreateOk(n)
  \/ \E n \in Handles : LoadCreateFail(n)
  \/ \E h \in Handles : CleanupUnloadOk(h)
  \/ \E h \in Handles : CleanupUnloadFail(h)

Status ==
  \/ \E h \in Handles, st \in LoadedStatuses : DeliverStatus(h, st)
  \/ \E h \in Handles : TimerFire(h)
  \/ TickTime

Transport ==
  \/ handlePlayPause
  \/ \E r \in pendingPlay : PlayOk(r)
  \/ \E r \in pendingPlay : PlayFail(r)

Seek ==
  \/ handleSlidingStart
  \/ \E value \in Positions : handleSlidingComplete(value)
  \/ \E r \in pendingSeek : SeekOk(r)
  \/ \E r \in pendingSeek : SeekFail(r)

Playback == Status \/ Transport \/ Seek

Volume ==
  \/ \E value \in Levels, sysOk \in BOOLEAN : handleVolumeChange(value, sysOk)
  \/ \E r \in pendingVol : VolumeOk(r)
  \/ \E r \in pendingVol : VolumeFail(r)
  \/ \E v \in Levels : SystemVolumeChanged(v)
  \/ \E r \in listenerReqs : ListenerVolumeOk(r)
  \/ \E r \in listenerReqs : ListenerVolumeFail(r)

SessionInit ==
  \/ \E ok \in BOOLEAN : InitPermission(ok)
  \/ \E ok, getOk \in BOOLEAN : InitAudioMode(ok, getOk)
  \/ InitGetVolume

VolumeControl == Volume \/ SessionInit

Next == Lifecycle \/ Playback \/ VolumeControl

Spec == Init /\ [][Next]_vars

\* The status callbacks read the isSeeking the seek controls write, and the
\* play/pause toggle reads the isPlaying the status callbacks write, so the
\* status callbacks are checked together with the seek controls, and the toggle
\* together with both.  The lifecycle hands the unloaded status of unloadAsync to
\* the handle's callback, which drops it (66) whatever its throttle holds and
\* whatever isSeeking it captured, so what the lifecycle writes to sound, the
\* handles and the listeners depends on no playback step; the seek controls read
\* sound and the handle's state only, and the volume and session-initialisation
\* steps read sound, the handles and the listeners only.
SpecLifecycle == Init /\ [][Lifecycle]_vars

NextSeek == Lifecycle \/ Seek
SpecSeek == Init /\ [][NextSeek]_vars

NextStatus == Lifecycle \/ Status \/ Seek
SpecStatus == Init /\ [][NextStatus]_vars

NextPlayback == Lifecycle \/ Playback
SpecPlayback == Init /\ [][NextPlayback]_vars

NextVolume == Lifecycle \/ VolumeControl
SpecVolume == Init /\ [][NextVolume]_vars

\* ---- formatTime applied to the millisecond values it is rendered with (146-147)
FmtInputs ==
  {b + 1000 * sec + 60000 * min :
     b \in {0, 1, 999}, sec \in 0..59, min \in 0..MaxMinutes}

InitFormat ==
  /\ phase = "init"
  /\ uri = EmptyUri
  /\ sound = NoSound
  /\ isPlaying = FALSE
  /\ duration = 0
  /\ position = 0
  /\ volume = DefaultVolume
  /\ isSeeking = FALSE
  /\ initPc = "idle"
  /\ nChanges = 0
  /\ nLoads = 0
  /\ loads = [n \in Handles |->
               [pc |-> "idle", snd |-> NoSound, cbSeeking |-> FALSE, uri |-> EmptyUri]]
  /\ hState = [h \in Handles |-> "none"]
  /\ hVol = [h \in Handles |-> InitialStatusVolume]
  /\ cleanupSound = NoSound
  /\ listener = NoListener
  /\ subs = {}
  /\ sysVolume = DefaultVolume
  /\ pendingPlay = {}
  /\ pendingSeek = {}
  /\ pendingVol = {}
  /\ listenerReqs = {}
  /\ pendingUnload = [h \in Handles |-> 0]
  /\ th = [h \in Handles |-> FreshThrottle]
  /\ log = <<>>
  /\ volFailed = FALSE
  /\ fmtIn \in FmtInputs
  /\ fmtOut = <<>>

ApplyFormat ==
  /\ fmtOut = <<>>
  /\ fmtOut' = formatTime(fmtIn)
  /\ UNCHANGED <<phase, nChanges, uri, sound, uiVars, volume, initPc, nLoads, loads, hState, hVol,
                 cleanupSound, listener, subs, sysVolume, pendingPlay, pendingSeek, pendingVol,
                 listenerReqs, pendingUnload, th, log, volFailed, fmtIn>>

NextFormat == ApplyFormat

SpecFormat == InitFormat /\ [][NextFormat]_vars

\* ======================================================================
\* Properties
\* ======================================================================

IsDigit(c) == \E d \in 0..9 : Digit(d) = c
DigitValue(c) == CHOOSE d \in 0..9 : Digit(d) = c

RECURSIVE ParseNat(_)
ParseNat(s) == IF s = <<>> THEN 0
               ELSE 10 * ParseNat(SubSeq(s, 1, Len(s) - 1)) + DigitValue(s[Len(s)])

\* C9: for every non-negative ms, formatTime(ms) reads M:SS, where M is
\* floor(ms/60000) in decimal without padding and SS is floor(ms/1000) mod 60 in
\* exactly two digits, always within 00..59; 65000 gives 1:05, 0 gives 0:00 and
\* 599000 gives 9:59.
C9_FormatTime ==
  fmtOut # <<>> =>
    LET n == Len(fmtOut)
        mm == SubSeq(fmtOut, 1, n - 3)
        ss == SubSeq(fmtOut, n - 1, n)
    IN /\ n >= 4
       /\ fmtOut[n - 2] = ":"
       /\ \A i \in 1..Len(mm) : IsDigit(mm[i])
       /\ \A i \in 1..2 : IsDigit(ss[i])
       /\ Len(mm) > 1 => mm[1] # "0"
       /\ ParseNat(mm) = fmtIn \div 60000
       /\ ParseNat(ss) = (fmtIn \div 1000) % 60
       /\ ParseNat(ss) \in 0..59
       /\ fmtIn = 65000 => fmtOut = <<"1", ":", "0", "5">>
       /\ fmtIn = 0 => fmtOut = <<"0", ":", "0", "0">>
       /\ fmtIn = 599000 => fmtOut = <<"9", ":", "5", "9">>

C9_Witness == fmtIn = 65000 /\ fmtOut = <<"1", ":", "0", "5">>

Loaded(h) == hState[h] = "loaded"

Range(q) == {q[i] : i \in 1..Len(q)}

\* C1: for every sequence of mount, locator changes and unmount, at most one
\* media handle is in the loaded state at any instant.
C1_AtMostOneLoaded == Cardinality({h \in Handles : Loaded(h)}) <= 1

\* a step in which the status subscriber of some handle runs
StatusStep ==
  \/ \E h \in Handles, st \in LoadedStatuses : DeliverStatus(h, st)
  \/ \E h \in Handles : TimerFire(h)

\* C2: while isSeeking is true, no status update delivered by the subscriber of
\* a loaded handle changes the UI state's position or isPlaying.
C2_NoStatusWriteWhileSeeking ==
  [][(isSeeking /\ StatusStep) => (position' = position /\ isPlaying' = isPlaying)]_vars

\* C3: unmounting while a resource is loaded issues an unload of that resource,
\* and issues it before the volume-change subscription is disposed.  The calls
\* of an unmount are those of the cleanups of the removed component; the
\* resource is the owned handle, which was loaded before the removal.
C3_UnmountUnloadsFirst ==
  [][UnmountCleanup =>
       \A h \in Handles : (Loaded(h) /\ h = sound) =>
         \E i, j \in 1..Len(log') :
           /\ log'[i] = Call("unload", h, 0)
           /\ log'[j].op = "remove"
           /\ i < j]_vars

\* C4: a volume commit with value v attempts the system level update and, when a
\* handle is owned, the resource volume update with v; the failure of one does
\* not keep the other from being attempted.
C4_BothTargetsAttempted ==
  [][\A v \in Levels, sysOk \in BOOLEAN :
       (handleVolumeChange(v, sysOk) /\ sound # NoSound) =>
         /\ Call("change", 0, v) \in Range(log')
         /\ Call("setVolume", sound, v) \in Range(log')]_vars

\* the last load attempt failed after it had released the handle loaded before
\* it, and no load is in flight
FailedAfterLoaded ==
  /\ nLoads > 0
  /\ loads[nLoads].pc = "failed"
  /\ loads[nLoads].snd # NoSound
  /\ hState[loads[nLoads].snd] = "unloaded"
  /\ \A n \in Handles : loads[n].pc \notin {"unloading", "creating"}

\* C5: after a load attempt fails the component owns no handle, so a later
\* play/pause toggle or seek commit issues no request to any resource, also when
\* a previous handle had been loaded before the failing load.
C5_NoRequestAfterFailedLoad ==
  [][(FailedAfterLoaded /\
        (handlePlayPause \/ \E value \in Positions : handleSlidingComplete(value)))
       => log' = <<>>]_vars

\* handle h's subscriber writes a status to the UI state in this step
AppliedBy(h) ==
  \/ \E st \in LoadedStatuses :
       DeliverStatus(h, st) /\ StatusApplies(h, ThrottleCall(th[h], st))
  \/ TimerFire(h) /\ StatusApplies(h, ThrottleTimer(th[h]))

\* handle h's subscriber wrote a status to the UI state less than 100ms ago:
\* it ran less than 100ms ago, and all it has received are loaded statuses that
\* it applies
RecentlyApplied(h) ==
  /\ Mounted
  /\ Loaded(h)
  /\ ~loads[h].cbSeeking
  /\ th[h].sinceInvoke < ThrottleWait

\* C6: the status updates written to the UI state are at least 100ms apart.
C6_AppliedSpacing ==
  [][\A h \in Handles : AppliedBy(h) => \A g \in Handles : ~RecentlyApplied(g)]_vars

\* C7: whenever a handle is loaded and no volume request is in flight or has
\* failed, the UI volume, the system output level and the loaded resource's
\* playback level are equal.
C7_VolumeMirrored ==
  \A h \in Handles :
    (/\ Mounted
     /\ Loaded(h)
     /\ initPc = "done"
     /\ pendingVol = {}
     /\ listenerReqs = {}
     /\ ~volFailed)
    => (volume = sysVolume /\ hVol[h] = sysVolume)

\* C8: the setVolume request triggered by an external volume-change notification
\* always targets the handle that is loaded.
C8_ListenerTargetsLoaded ==
  [][\A v \in Levels :
       (SystemVolumeChanged(v) /\ log' # <<>>) =>
         (log'[1].op = "setVolume" /\ Loaded(log'[1].h))]_vars

\* C10: a seek commit with target p changes nothing when no handle is owned;
\* with a handle owned it issues exactly one seek to p and writes nothing yet;
\* when that request succeeds the position becomes p and isSeeking is cleared.
C10_SeekCommit ==
  [][/\ \A p \in Positions :
          handleSlidingComplete(p) =>
            IF sound = NoSound
            THEN /\ log' = <<>>
                 /\ UNCHANGED <<position, isSeeking, pendingSeek>>
            ELSE /\ log' = <<Call("setPosition", sound, p)>>
                 /\ UNCHANGED <<position, isSeeking>>
                 /\ [h |-> sound, v |-> p] \in pendingSeek'
     /\ \A r \in pendingSeek :
          (SeekOk(r) /\ Mounted) =>
            /\ position' = r.v
            /\ isSeeking' = FALSE
            /\ log' = <<>>]_vars

\* a seek to the last position has succeeded on the owned handle
C10_Witness ==
  /\ Mounted
  /\ sound # NoSound
  /\ position = MaxPos
  /\ ~isSeeking
  /\ pendingSeek = {}

\* C11: when the seek request of a seek commit fails, the error is only logged,
\* the position is left as it was and isSeeking keeps its value; isSeeking
\* becomes true only in a seek begin, and becomes false only when the seek
\* request of a seek commit succeeds on a handle the component had loaded.
C11_SeekFailureKeepsSeeking ==
  [][/\ \A r \in pendingSeek :
          SeekFail(r) =>
            /\ UNCHANGED <<position, isSeeking, isPlaying, duration>>
            /\ log' = <<LogError>>
     /\ (~isSeeking /\ isSeeking') => handleSlidingStart
     /\ (isSeeking /\ ~isSeeking') =>
          \E r \in pendingSeek :
            /\ SeekOk(r)
            /\ Loaded(r.h)
            /\ loads[r.h].pc = "done"]_vars

\* a seek request has just failed, with every load successful, and the seek
\* interaction is still open
C11_Witness ==
  /\ Mounted
  /\ sound # NoSound
  /\ log = <<LogError>>
  /\ \A n \in Handles : loads[n].pc # "failed"
  /\ pendingSeek = {}
  /\ isSeeking

\* C12: a play/pause toggle writes no UI state: with no handle owned it issues
\* no request; with a handle owned it issues exactly one request, pause when
\* isPlaying is true and play otherwise; whether the request succeeds or fails,
\* isPlaying, position, duration, volume and isSeeking are left as they were;
\* isPlaying changes only in a step that applies a status update.
C12_ToggleWritesNothing ==
  [][/\ handlePlayPause =>
          /\ UNCHANGED <<isPlaying, position, duration, volume, isSeeking>>
          /\ IF sound = NoSound
             THEN log' = <<>> /\ pendingPlay' = pendingPlay
             ELSE /\ Len(log') = 1
                  /\ log'[1].h = sound
                  /\ isPlaying => log'[1].op = "pause"
                  /\ ~isPlaying => log'[1].op = "play"
     /\ \A r \in pendingPlay :
          (PlayOk(r) \/ PlayFail(r)) =>
            /\ UNCHANGED <<isPlaying, position, duration, volume, isSeeking>>
            /\ log' \in {<<>>, <<LogError>>}
     /\ isPlaying' # isPlaying => \E h \in Handles : AppliedBy(h)]_vars

\* a pause request has just been issued to the owned handle while the UI shows
\* playing, and the UI still shows playing
C12_Witness ==
  /\ Mounted
  /\ sound # NoSound
  /\ isPlaying
  /\ log = <<Call("pause", sound, 0)>>
  /\ [h |-> sound] \in pendingPlay

\* what applying status st writes to duration, position and isPlaying
Written(st) ==
  <<IF st.durationMillis = Undefined THEN 0 ELSE st.durationMillis,
    IF st.positionMillis = Undefined THEN 0 ELSE st.positionMillis,
    st.isPlaying>>

\* C13: a status update reporting isLoaded = false is dropped: the step in which
\* a handle is unloaded, and the trailing delivery of an unloaded status, leave
\* duration, position and isPlaying unchanged; a status update that is applied
\* sets the three together, a missing duration or position being written as 0,
\* and duration changes in no other step.
C13_UnloadedDroppedAppliedTogether ==
  [][/\ \A h \in Handles :
          (hState[h] = "loaded" /\ hState'[h] = "unloaded") =>
            UNCHANGED <<duration, position, isPlaying>>
     /\ \A h \in Handles :
          (TimerFire(h) /\ ~th[h].args.isLoaded) =>
            UNCHANGED <<duration, position, isPlaying>>
     /\ \A h \in Handles, st \in LoadedStatuses :
          (DeliverStatus(h, st) /\ StatusApplies(h, ThrottleCall(th[h], st))) =>
            <<duration, position, isPlaying>>' = Written(st)
     /\ \A h \in Handles :
          (TimerFire(h) /\ StatusApplies(h, ThrottleTimer(th[h]))) =>
            <<duration, position, isPlaying>>' = Written(th[h].args)
     /\ duration' # duration => \E h \in Handles : AppliedBy(h)]_vars

\* a handle's callback has just been run with the unloaded status, and the UI
\* still shows the playing status applied before
C13_Witness ==
  /\ Mounted
  /\ isPlaying
  /\ duration = MaxPos
  /\ \E h \in Handles :
       /\ hState[h] = "unloaded"
       /\ ~loads[h].cbSeeking
       /\ th[h].sinceCall = 0
       /\ th[h].sinceInvoke = 0
       /\ ~th[h].has

\* every loadAudio call has settled
LoadsSettled == \A n \in Handles : loads[n].pc \in {"idle", "done", "failed"}

\* C14: once every pending load has completed, the owned handle is the one
\* loaded for the most recent locator; a load for an older locator that
\* completes late does not become the owned handle.
C14_LatestLoadOwns ==
  (Mounted /\ uri # EmptyUri /\ LoadsSettled /\ nLoads > 0 /\ loads[nLoads].pc = "done")
    => (sound = nLoads /\ loads[sound].uri = uri)

\* a status emitted after the one pending in handle h's throttle has already
\* been applied: another handle's callback, which applies all it is run with,
\* was last called more recently than h's, and ran at that call
NewerApplied(h) ==
  \E g \in Handles \ {h} :
    /\ Mounted
    /\ Loaded(g)
    /\ ~loads[g].cbSeeking
    /\ ~th[g].has
    /\ th[g].sinceCall = th[g].sinceInvoke
    /\ th[g].sinceCall < th[h].sinceCall

\* C15: the statuses applied to the UI state are applied in the order the
\* platform emitted them: the trailing-edge delivery of a throttle never applies
\* a status after one that was emitted later has been applied, also across a
\* change of loaded handle.
C15_StatusOrderPreserved ==
  [][\A h \in Handles :
       (TimerFire(h) /\ StatusApplies(h, ThrottleTimer(th[h]))) => ~NewerApplied(h)]_vars

\* a step of initAudio that ends in its catch
InitFails ==
  \/ InitPermission(FALSE)
  \/ \E getOk \in BOOLEAN : InitAudioMode(FALSE, getOk)
  \/ InitAudioMode(TRUE, FALSE)

\* the calls of session initialization among the calls of a step
InitCalls(calls) ==
  SelectSeq(calls, LAMBDA c : c.op \in {"requestPermissions", "setAudioMode", "getVolume"})

\* C16: session initialization runs once per mount, as permission request,
\* then session configure, then system-volume read, each issued only when the
\* step before it succeeded; a failing step is only logged, ends the
\* initialization and leaves the UI volume as it was; the system level is read
\* at most once; and the load of a non-empty source is started at mount, and at
\* a later change of the source, whatever the initialization does.
C16_InitSequence ==
  [][/\ InitCalls(log') # <<>> =>
          \/ /\ \E u \in Uris : Mount(u)
             /\ InitCalls(log') = <<Call("requestPermissions", 0, 0)>>
          \/ /\ initPc = "perm" /\ InitPermission(TRUE)
             /\ InitCalls(log') = <<Call("setAudioMode", 0, 0)>>
          \/ /\ initPc = "mode" /\ \E getOk \in BOOLEAN : InitAudioMode(TRUE, getOk)
             /\ InitCalls(log') = <<Call("getVolume", 0, 0)>>
     /\ \A u \in Uris :
          Mount(u) =>
            /\ InitCalls(log') = <<Call("requestPermissions", 0, 0)>>
            /\ u # EmptyUri => Call("create", 1, u) \in Range(log')
     /\ \A u \in Uris \ {EmptyUri} :
          (UriChange(u) /\ initPc = "failed") =>
            (nLoads' = nLoads + 1 /\ loads'[nLoads'].pc \in {"unloading", "creating"})
     /\ initPc = "mode" => initPc' \in {"mode", "getVolume", "failed"}
     /\ initPc = "getVolume" => initPc' \in {"getVolume", "done"}
     /\ initPc \in {"failed", "done"} => (initPc' = initPc /\ InitCalls(log') = <<>>)
     /\ InitFails =>
          /\ initPc' = "failed"
          /\ SelectSeq(log', LAMBDA c : c.op # "getVolume") = <<LogError>>
          /\ volume' = volume
          /\ loads' = loads
     /\ (\E ok, getOk \in BOOLEAN : InitPermission(ok) \/ InitAudioMode(ok, getOk))
          => volume' = volume]_vars

\* initialization has just failed with every load and volume request
\* successful: the UI volume is still the default although the system level is
\* another, and the load has been started
C16_Witness ==
  /\ Mounted
  /\ initPc = "failed"
  /\ log = <<LogError>>
  /\ ~volFailed
  /\ \A n \in Handles : loads[n].pc # "failed"
  /\ volume = DefaultVolume
  /\ sysVolume # DefaultVolume
  /\ nLoads >= 1

\* every registration in the calls of the step was preceded, in the same step,
\* by the removal of the subscription registered before it
RemovedBeforeRegistered ==
  \A j \in 1..Len(log') :
    (log'[j].op = "subscribe" /\ subs # {}) =>
      \E i \in 1..(j - 1) : log'[i].op = "remove" /\ subs = {log'[i].h}

\* C17, as claimed: while the component is mounted exactly one volume-change
\* subscription is active, the previous one being removed before a new one is
\* registered; after unmount, that is once the component is removed, no
\* subscription remains active.
C17_NoneAfterUnmount ==
  [][/\ Mounted' => Cardinality(subs') = 1
     /\ RemovedBeforeRegistered
     /\ phase' \in {"removed", "unmounted"} => subs' = {}]_vars

\* C17, amended: subscriptions never overlap; while the component is mounted
\* exactly one is active, the previous one being removed before a new one is
\* registered, and once the [sound] effect has run for the owned handle it is
\* the one capturing that handle; the removal of the component leaves the last
\* subscription active, and none remains once the effect cleanups have run.
C17_OneSubscription ==
  [][/\ Cardinality(subs') <= 1
     /\ Mounted' => Cardinality(subs') = 1
     /\ RemovedBeforeRegistered
     /\ SoundEffect => subs' = {sound}
     /\ Unmount => (subs' = subs /\ Cardinality(subs') = 1)
     /\ phase' = "unmounted" => subs' = {}]_vars

\* the component was removed while it owned a handle and its cleanups have just
\* run: the subscription capturing that handle was removed and none is left
C17_Witness ==
  /\ phase = "unmounted"
  /\ sound # NoSound
  /\ subs = {}
  /\ log = <<Call("remove", sound, 0)>>

====
